---- MODULE Spec2Model ----
(***************************************************************************)
(* State machine of the QPS waitlist backend (src/app.js): the user        *)
(* collection, the four request handlers that write it (register-email,    *)
(* update-details, the Google and the LinkedIn callback) and the passport  *)
(* session of every client.                                                *)
(*                                                                         *)
(* Every handler awaits one User.findOneAndUpdate call and the handlers of *)
(* different clients overlap at that await, so a request takes three or    *)
(* four steps: the handler up to the await (pc "call"), the store serving  *)
(* the call (to pc "reply"; an upsert that finds no document first goes to *)
(* pc "insert" and inserts under the unique index on email in a further    *)
(* step, so that two upserts of one unseen email can both have looked      *)
(* before either has inserted), and the handler's continuation, which      *)
(* writes the response and, for a login, binds the session.                *)
(*                                                                         *)
(* passport.session() runs before every route: the request of a client     *)
(* whose session is bound first awaits deserializeUser (pc "find"), the    *)
(* store serves or fails its User.findById (to pc "found"), and only then  *)
(* the route's handler runs, or the request is answered with the error.    *)
(*                                                                         *)
(* A provider callback carries the provider's authorization code, not the  *)
(* profile: passport.authenticate exchanges the code and fetches the       *)
(* profile from the provider (pc "provider") and runs the strategy's       *)
(* verify callback only when the provider has replied; the round trip may  *)
(* fail, and requests of other clients are served in between.              *)
(*                                                                         *)
(* Strings are sequences of characters, wrapped as [str |-> <<...>>], so   *)
(* that includes('@') and encodeURIComponent are computed on the text.     *)
(* The update casting and the insert defaults are those of Mongoose 6 and  *)
(* later (the versions that accept the option-less mongoose.connect(uri)   *)
(* of line 43): keys whose value is undefined are removed from an update,  *)
(* and the schema defaults are applied when an upsert inserts.             *)
(***************************************************************************)
EXTENDS Integers, Sequences, FiniteSets, TLC

VARIABLES users, nextId, clock, req, session, last

vars == <<users, nextId, clock, req, session, last>>

------------------------------------------------------------------------------
(* Bounds *)

NSlots == 2
MaxRequests == 2

Slots == 1..NSlots

------------------------------------------------------------------------------
(* JavaScript values *)

Undefined == [undefined |-> TRUE]
Null == [null |-> TRUE]
Str(s) == [str |-> s]
Num(n) == [num |-> n]

IsString(v) == DOMAIN v = {"str"}
IsNumber(v) == DOMAIN v = {"num"}

\* ToBoolean: undefined, null, "" and 0 are falsy.
Truthy(v) ==
  IF IsString(v) THEN Len(v.str) > 0
  ELSE IF IsNumber(v) THEN v.num # 0
  ELSE FALSE

\* String.prototype.includes, for a one-character needle.
includes(v, c) == \E i \in 1..Len(v.str) : v.str[i] = c

\* Characters encodeURIComponent escapes, among those the model uses.
Escape(c) ==
  IF c = "@" THEN <<"%", "4", "0">>
  ELSE IF c = " " THEN <<"%", "2", "0">>
  ELSE <<c>>

RECURSIVE encodeURIComponent(_)
encodeURIComponent(s) ==
  IF s = <<>> THEN <<>> ELSE Escape(Head(s)) \o encodeURIComponent(Tail(s))

------------------------------------------------------------------------------
(* Inputs *)

EmailA == Str(<<"a", "@", "x">>)
EmailB == Str(<<"b", "@", "x">>)
NoAt == Str(<<"a", "x">>)
Empty == Str(<<>>)

RegisterBodies ==
  { [email |-> e] : e \in {Undefined, Empty, NoAt, Num(42), EmailA, EmailB} }

DetailFields ==
  { [fullName |-> Str(<<"Ann">>), country |-> Str(<<"PK">>),
     profession |-> Str(<<"dev">>), source |-> Str(<<"web">>)],
    [fullName |-> Str(<<"Bob">>), country |-> Undefined,
     profession |-> Undefined, source |-> Undefined],
    [fullName |-> Undefined, country |-> Str(<<"UK">>),
     profession |-> Str(<<"qa">>), source |-> Str(<<"ad">>)] }

DetailBodies ==
  { [email |-> e, fullName |-> d.fullName, country |-> d.country,
     profession |-> d.profession, source |-> d.source] :
      e \in {EmailA}, d \in DetailFields }
  \cup
  { [email |-> e, fullName |-> Str(<<"Ann">>), country |-> Str(<<"PK">>),
     profession |-> Str(<<"dev">>), source |-> Str(<<"web">>)] :
      e \in {Undefined, Empty} }

GoogleProfiles ==
  { [displayName |-> Str(<<"Gina">>)],
    [displayName |-> Str(<<"Gina">>), emails |-> <<>>],
    [displayName |-> Str(<<"Gina">>), emails |-> <<[value |-> EmailA]>>] }

LinkedInProfiles ==
  { [displayName |-> Str(<<"Lin">>)],
    [displayName |-> Str(<<"Lin">>), email |-> EmailA],
    [displayName |-> Str(<<"Lin">>), emails |-> <<[value |-> EmailA]>>],
    [displayName |-> Str(<<"Lin">>), email |-> EmailA,
     emails |-> <<[value |-> EmailB]>>] }

\* The query of a provider callback: the authorization code.
AuthorizationCode == [code |-> "code"]

\* The profiles the provider of a strategy may send.
Profiles(kind) == IF kind = "google" THEN GoogleProfiles ELSE LinkedInProfiles

------------------------------------------------------------------------------
(* The User model *)

\* Mutant of castUpdate: the keys whose value is undefined stay in the update
\* and overwrite (the cast of Mongoose 5).
castUpdate_KeepUndefined(update) == update

\* Mutant of castUpdate: every path of the schema the update does not name is
\* overwritten with undefined.
castUpdate_AllPaths(update) ==
  [k \in {"email", "fullName", "country", "profession", "source", "provider"} |->
     IF k \in DOMAIN update THEN update[k] ELSE Undefined]

\* Mongoose's cast of an update: the keys whose value is undefined are removed.
castUpdate(update) ==
  [k \in {f \in DOMAIN update : update[f] # Undefined} |-> update[k]]

\* Mutant of applySet: the update replaces the document (overwrite), the
\* paths it does not name falling back to the schema defaults.
applySet_Replace(doc, set) ==
  [f \in DOMAIN doc |->
     IF f \in DOMAIN set THEN set[f]
     ELSE IF f \in {"_id", "email"} THEN doc[f]
     ELSE IF f = "provider" THEN Str(<<"local">>)
     ELSE IF f = "registeredAt" THEN clock + 1
     ELSE Undefined]

\* $set of the cast update on a document.
applySet(doc, set) ==
  [f \in DOMAIN doc |-> IF f \in DOMAIN set THEN set[f] ELSE doc[f]]

\* The document an upsert inserts: the equality filter, the schema defaults
\* ($setOnInsert), then the update.
newDocument(id, email, set, now) ==
  applySet([_id |-> id, email |-> email, fullName |-> Undefined,
            country |-> Undefined, profession |-> Undefined,
            source |-> Undefined, provider |-> Str(<<"local">>),
            registeredAt |-> now], set)

\* User.findOne({ email }): the first match in insertion order, or null.
matching(email) == {u \in users : u.email = email}

findOne(email) ==
  IF matching(email) = {} THEN Null
  ELSE CHOOSE u \in matching(email) : \A w \in matching(email) : u._id <= w._id

\* User.findById(id)
findById(id) ==
  IF \E u \in users : u._id = id THEN CHOOSE u \in users : u._id = id ELSE Null

------------------------------------------------------------------------------
(* Passport *)

Unauthenticated == 0

\* Mutant of serializeUser: a field other than _id goes into the session.
serializeUser_RegisteredAt(user) == user.registeredAt

serializeUser(user) == user._id

\* passport.deserializeUser, after its await: done(null, user) with what
\* User.findById returned, or done(err) when it threw.
deserializeUser(found) ==
  IF found.error # "none" THEN [err |-> found.error, user |-> Undefined]
  ELSE [err |-> "none", user |-> found.user]

\* profile.emails?.[0]?.value
firstEmail(profile) ==
  IF "emails" \notin DOMAIN profile THEN Undefined
  ELSE IF Len(profile.emails) = 0 THEN Undefined
  ELSE profile.emails[1].value

googleEmail(profile) == firstEmail(profile)

\* profile.email || profile.emails?.[0]?.value
linkedinEmail(profile) ==
  IF "email" \in DOMAIN profile /\ Truthy(profile.email) THEN profile.email
  ELSE firstEmail(profile)

------------------------------------------------------------------------------
(* Requests *)

\* A client with no request in flight.
Idle == [pc |-> "idle"]

\* A request suspended at its await, its store call not yet served.
Calling(kind, email, update, upsert, now) ==
  [pc |-> "call", kind |-> kind, email |-> email, update |-> update,
   upsert |-> upsert, now |-> now]

\* A request of a client whose session is bound to id, suspended at the await
\* of deserializeUser, its User.findById not yet served.
Resolving(kind, input, id) ==
  [pc |-> "find", kind |-> kind, input |-> input, id |-> id]

\* A provider callback suspended in passport.authenticate: the strategy has
\* sent the code to the provider, which has not replied yet.
Authenticating(kind) == [pc |-> "provider", kind |-> kind]

\* The store has served the findById of request r: the document found (null
\* when none) and the error thrown ("none" when the call succeeded).
Found(r, user, error) ==
  [pc |-> "found", kind |-> r.kind, input |-> r.input, id |-> r.id,
   user |-> user, error |-> error]

\* The store has served the call of request r and the reply is on its way to
\* the handler: the document the look-up found (null when none), the
\* document returned (null when none), whether it was inserted, and the
\* error thrown ("none" when the call succeeded).
Replied(r, before, result, created, error) ==
  [pc |-> "reply", kind |-> r.kind, email |-> r.email, update |-> r.update,
   before |-> before, result |-> result, created |-> created,
   error |-> error]

\* The last request answered: who asked what, what the store did with its
\* call (NoCall when the request was answered before any), and the response.
Answered(s, kind, email, call, resp) ==
  [slot |-> s, kind |-> kind, email |-> email, call |-> call, resp |-> resp]

None == [slot |-> 0]

NoCall == [pc |-> "none"]

DetailsUrl(email) ==
  <<"https://quantumshell.live/details?email=">> \o encodeURIComponent(email.str)

IsLogin(kind) == kind \in {"google", "linkedin"}

\* What the handler does once its store call has returned `result`.  The
\* first character of the register-email message is the code point U+2705.
respond(kind, result) ==
  IF kind = "register"
    THEN [status |-> 200, message |-> <<"U+2705", " Logic Seeded">>,
          userId |-> result._id]
  ELSE IF kind = "update"
    THEN [status |-> 200,
          message |-> "Details saved. You're now part of QPS waitlist!",
          data |-> result]
  ELSE [status |-> 302, location |-> DetailsUrl(result.email)]

\* What the handler does when its store call, or the code before it, has
\* thrown: the catch block of an API route; for a strategy and for
\* deserializeUser done(err), which passport hands to next(err) and Express
\* answers with a 500.
fail(kind) ==
  IF kind = "register" THEN [status |-> 500, error |-> "Server error"]
  ELSE IF kind = "update" THEN [status |-> 500, error |-> "System Latency Error"]
  ELSE [status |-> 500, error |-> "Internal Server Error"]

\* The collections the process may find when it starts: none yet, a user
\* that registered its email, a user that logged in and sent its details.
InitialUsers ==
  { {},
    { newDocument(1, EmailA, [email |-> EmailA], 0) },
    { newDocument(1, EmailA,
                  [email |-> EmailA, provider |-> Str(<<"google">>),
                   fullName |-> Str(<<"Ann">>), country |-> Str(<<"PK">>),
                   profession |-> Str(<<"dev">>), source |-> Str(<<"web">>)],
                  0) } }

Init ==
  /\ clock = 0
  /\ users \in InitialUsers
  /\ nextId = Cardinality(users) + 1
  /\ req = [s \in Slots |-> Idle]
  /\ session = [s \in Slots |-> Unauthenticated]
  /\ last = None

\* A request of client s arrives.
Arrives(s) ==
  /\ req[s] = Idle
  /\ clock < MaxRequests
  /\ clock' = clock + 1

\* The request is answered before any findOneAndUpdate.
Reject(s, kind, email, resp) ==
  /\ last' = Answered(s, kind, email, NoCall, resp)
  /\ req' = [req EXCEPT ![s] = Idle]
  /\ UNCHANGED <<users, nextId>>

\* await User.findOneAndUpdate({ email }, update, { upsert, new: true }): the
\* handler hands the call to the store and suspends.
findOneAndUpdate(s, kind, email, update, upsert, now) ==
  /\ req' = [req EXCEPT ![s] = Calling(kind, email, update, upsert, now)]
  /\ UNCHANGED <<users, nextId, last>>

\* The handler of POST /api/register-email, up to the await.
registerEmail(s, body, now) ==
  LET email == body.email IN
    IF Truthy(email) /\ ~IsString(email)
      THEN Reject(s, "register", email, fail("register"))
    ELSE IF ~Truthy(email) \/ ~includes(email, "@")
      THEN Reject(s, "register", email,
                  [status |-> 400, error |-> "Valid email required"])
    ELSE findOneAndUpdate(s, "register", email, [email |-> email], TRUE, now)

\* The handler of POST /api/update-details, up to the await.
updateDetails(s, body, now) ==
  LET email == body.email IN
    IF ~Truthy(email)
      THEN Reject(s, "update", email,
                  [status |-> 400, error |-> "Email required"])
    ELSE findOneAndUpdate(s, "update", email,
                          [fullName |-> body.fullName,
                           country |-> body.country,
                           profession |-> body.profession,
                           source |-> body.source],
                          FALSE, now)

\* Mutant of verify: the update does not name the provider.
verify_NoProvider(s, kind, email, displayName, now) ==
  IF ~Truthy(email)
    THEN Reject(s, kind, email, fail(kind))
  ELSE findOneAndUpdate(s, kind, email,
                        [email |-> email, fullName |-> displayName], TRUE, now)

\* The verify callback of a strategy, up to the await.
verify(s, kind, email, displayName, now) ==
  IF ~Truthy(email)
    THEN Reject(s, kind, email, fail(kind))
  ELSE findOneAndUpdate(s, kind, email,
                        [email |-> email, provider |-> Str(<<kind>>),
                         fullName |-> displayName],
                        TRUE, now)

\* The email of a profile, as the verify callback of the strategy reads it.
profileEmail(kind, profile) ==
  IF kind = "google" THEN googleEmail(profile) ELSE linkedinEmail(profile)

\* The email a request carries: req.body.email; a callback carries none.
requestEmail(kind, input) ==
  IF kind \in {"google", "linkedin"} THEN Undefined ELSE input.email

\* passport.authenticate(kind, ...) of a callback route: the strategy sends
\* the code to the provider and the request suspends.
authenticate(s, kind) ==
  /\ req' = [req EXCEPT ![s] = Authenticating(kind)]
  /\ UNCHANGED <<users, nextId, last>>

\* The route of the request, from its entry up to its first await.
route(s, kind, input, now) ==
  IF kind = "register" THEN registerEmail(s, input, now)
  ELSE IF kind = "update" THEN updateDetails(s, input, now)
  ELSE authenticate(s, kind)

\* app.use(passport.session()): the request of a client whose session is
\* bound awaits deserializeUser before its route; that of any other client
\* goes to its route at once.
passportSession(s, kind, input) ==
  IF session[s] = Unauthenticated
    THEN /\ route(s, kind, input, clock + 1)
         /\ UNCHANGED session
  ELSE /\ req' = [req EXCEPT ![s] = Resolving(kind, input, session[s])]
       /\ UNCHANGED <<users, nextId, session, last>>

\* POST /api/register-email, up to its first await.
RegisterEmail(s, body) ==
  /\ Arrives(s)
  /\ passportSession(s, "register", body)

\* POST /api/update-details, up to its first await.
UpdateDetails(s, body) ==
  /\ Arrives(s)
  /\ passportSession(s, "update", body)

\* GET /auth/google/callback, up to its first await.
GoogleCallback(s) ==
  /\ Arrives(s)
  /\ passportSession(s, "google", AuthorizationCode)

\* GET /auth/linkedin/callback, up to its first await.
LinkedInCallback(s) ==
  /\ Arrives(s)
  /\ passportSession(s, "linkedin", AuthorizationCode)

\* The provider has replied with the profile: the strategy runs its verify
\* callback, up to the await.
ProviderReplies(s, profile) ==
  /\ req[s].pc = "provider"
  /\ profile \in Profiles(req[s].kind)
  /\ verify(s, req[s].kind, profileEmail(req[s].kind, profile),
            profile.displayName, clock)
  /\ UNCHANGED <<clock, session>>

\* The round trip to the provider fails (the code is not exchanged, the
\* profile is not fetched): the strategy errors, verify never runs, and the
\* request is answered with the error.
ProviderFails(s) ==
  /\ req[s].pc = "provider"
  /\ last' = Answered(s, req[s].kind, Undefined, req[s], fail(req[s].kind))
  /\ req' = [req EXCEPT ![s] = Idle]
  /\ UNCHANGED <<users, nextId, clock, session>>

\* The store serves the User.findById of deserializeUser.
FindByIdServes(s) ==
  /\ req[s].pc = "find"
  /\ req' = [req EXCEPT ![s] = Found(req[s], findById(req[s].id), "none")]
  /\ UNCHANGED <<users, nextId, clock, session, last>>

\* The store cannot serve the User.findById: the await throws.
FindByIdFails(s) ==
  /\ req[s].pc = "find"
  /\ req' = [req EXCEPT ![s] = Found(req[s], Null, "unavailable")]
  /\ UNCHANGED <<users, nextId, clock, session, last>>

\* deserializeUser after its await, and what passport.session() does with
\* its outcome: on done(err) the request is answered with the error and its
\* route never runs; on done(null, null) the session is unbound and the
\* route runs; on done(null, user) the route runs.
Resumes(s) ==
  /\ req[s].pc = "found"
  /\ LET d == deserializeUser(req[s]) IN
       IF d.err # "none"
         THEN /\ last' = Answered(s, req[s].kind,
                                  requestEmail(req[s].kind, req[s].input),
                                  req[s], fail("session"))
              /\ req' = [req EXCEPT ![s] = Idle]
              /\ UNCHANGED <<users, nextId, session>>
       ELSE /\ session' = IF d.user = Null
                            THEN [session EXCEPT ![s] = Unauthenticated]
                            ELSE session
            /\ route(s, req[s].kind, req[s].input, clock)
  /\ UNCHANGED clock

\* The store serves a findOneAndUpdate: it looks the email up; a match is
\* updated and returned (new: true) in this step; without a match an upsert
\* goes on to insert and a plain update returns null.
StoreServes(s) ==
  /\ req[s].pc = "call"
  /\ LET doc == findOne(req[s].email)
         new == applySet(doc, castUpdate(req[s].update)) IN
       IF doc # Null
         THEN /\ users' = (users \ {doc}) \cup {new}
              /\ req' = [req EXCEPT ![s] = Replied(req[s], doc, new, FALSE, "none")]
       ELSE IF req[s].upsert
         THEN /\ req' = [req EXCEPT ![s].pc = "insert"]
              /\ UNCHANGED users
       ELSE /\ req' = [req EXCEPT ![s] = Replied(req[s], Null, Null, FALSE, "none")]
            /\ UNCHANGED users
  /\ UNCHANGED <<nextId, clock, session, last>>

\* Mutant of uniqueViolation: the schema declares no unique index.
uniqueViolation_NoIndex(email) == FALSE

\* The unique index on email (userSchema, unique: true).
uniqueViolation(email) == \E u \in users : u.email = email

\* The insert of an upsert that found no match.
UpsertInsert(s) ==
  /\ req[s].pc = "insert"
  /\ ~uniqueViolation(req[s].email)
  /\ LET new == newDocument(nextId, req[s].email,
                            castUpdate(req[s].update), req[s].now) IN
       /\ users' = users \cup {new}
       /\ nextId' = nextId + 1
       /\ req' = [req EXCEPT ![s] = Replied(req[s], Null, new, TRUE, "none")]
  /\ UNCHANGED <<clock, session, last>>

\* The insert of an upsert that lost the race: duplicate key error.
UpsertConflict(s) ==
  /\ req[s].pc = "insert"
  /\ uniqueViolation(req[s].email)
  /\ req' = [req EXCEPT ![s] = Replied(req[s], Null, Null, FALSE, "E11000")]
  /\ UNCHANGED <<users, nextId, clock, session, last>>

\* The store cannot serve the call: the await throws.
StoreFails(s) ==
  /\ req[s].pc = "call"
  /\ req' = [req EXCEPT ![s] = Replied(req[s], Null, Null, FALSE, "unavailable")]
  /\ UNCHANGED <<users, nextId, clock, session, last>>

\* The handler's continuation after the await: the catch block (done(err) in
\* a strategy) when the call threw; otherwise the response and, for a login,
\* done(null, user) and req.logIn, which binds the session to the user.
Continues(s) ==
  /\ req[s].pc = "reply"
  /\ req' = [req EXCEPT ![s] = Idle]
  /\ IF req[s].error # "none"
       THEN /\ last' = Answered(s, req[s].kind, req[s].email, req[s],
                                fail(req[s].kind))
            /\ UNCHANGED session
       ELSE /\ last' = Answered(s, req[s].kind, req[s].email, req[s],
                                respond(req[s].kind, req[s].result))
            /\ session' = IF IsLogin(req[s].kind)
                            THEN [session EXCEPT ![s] = serializeUser(req[s].result)]
                            ELSE session
  /\ UNCHANGED <<users, nextId, clock>>

\* The session of client s ends: the cookie's maxAge has passed.
Expires(s) ==
  /\ session[s] # Unauthenticated
  /\ session' = [session EXCEPT ![s] = Unauthenticated]
  /\ UNCHANGED <<users, nextId, clock, req, last>>

Next ==
  \E s \in Slots :
    \/ \E body \in RegisterBodies : RegisterEmail(s, body)
    \/ \E body \in DetailBodies : UpdateDetails(s, body)
    \/ GoogleCallback(s)
    \/ LinkedInCallback(s)
    \/ \E profile \in GoogleProfiles \cup LinkedInProfiles :
         ProviderReplies(s, profile)
    \/ ProviderFails(s)
    \/ FindByIdServes(s)
    \/ FindByIdFails(s)
    \/ Resumes(s)
    \/ StoreServes(s)
    \/ UpsertInsert(s)
    \/ UpsertConflict(s)
    \/ StoreFails(s)
    \/ Continues(s)
    \/ Expires(s)

Spec == Init /\ [][Next]_vars

------------------------------------------------------------------------------
(* Vocabulary of the properties *)

matchingIn(U, email) == {u \in U : u.email = email}

\* The documents of U with the _id of u.
sameId(U, u) == {w \in U : w._id = u._id}

\* The step in which the store serves the call of client s: it updates the
\* match, inserts, returns null or throws.
Serves(s) == req[s].pc \in {"call", "insert"} /\ req'[s].pc = "reply"

\* The step in which the handler of client s, resumed, writes its response.
Answers(s) == req[s].pc = "reply" /\ req'[s] = Idle

\* The step in which a handler answers its request before any
\* findOneAndUpdate: an API route at once for a client without session and
\* after the session has been resolved for a client with one, a verify
\* callback when the provider has replied.
Rejected ==
  \/ clock' = clock + 1 /\ req' = req
  \/ \E s \in Slots :
       /\ req[s].pc = "found"
       /\ req[s].error = "none"
       /\ req'[s] = Idle
  \/ \E s \in Slots :
       /\ req[s].pc = "provider"
       /\ req'[s] = Idle
       /\ last'.call = NoCall

\* The step in which the store serves the findById of client s.
Resolves(s) == req[s].pc = "find" /\ req'[s].pc = "found"

\* The last request answered had its findOneAndUpdate served.
Called(a) == a # None /\ a.call.pc = "reply"

Succeeded(r) == r.pc = "reply" /\ r.error = "none"

IsUpsert(kind) == kind \in {"register", "google", "linkedin"}

DetailPaths == {"fullName", "country", "profession", "source"}

\* The email a register-email body must not have to pass the validation.
InvalidEmail(email) ==
  ~Truthy(email) \/ ~IsString(email) \/ ~includes(email, "@")

RECURSIVE decodeURIComponent(_)
decodeURIComponent(s) ==
  IF s = <<>> THEN <<>>
  ELSE IF Len(s) >= 3 /\ SubSeq(s, 1, 3) = <<"%", "4", "0">>
    THEN <<"@">> \o decodeURIComponent(SubSeq(s, 4, Len(s)))
  ELSE IF Len(s) >= 3 /\ SubSeq(s, 1, 3) = <<"%", "2", "0">>
    THEN <<" ">> \o decodeURIComponent(SubSeq(s, 4, Len(s)))
  ELSE <<Head(s)>> \o decodeURIComponent(Tail(s))

\* The email query parameter of a redirect to the details page.
emailParam(location) == decodeURIComponent(Tail(location))

------------------------------------------------------------------------------
(* Properties *)

\* C1: the store holds at most one user document per email in every
\* reachable state, and once the store has served an upsert of an email (by
\* an update, an insert or a duplicate key error), and still when that upsert
\* has been answered, it holds exactly one document with that email.
C1_OneRecordPerEmail ==
  /\ \A u, w \in users : u.email = w.email => u = w
  /\ \A s \in Slots :
       (/\ req[s].pc = "reply"
        /\ IsUpsert(req[s].kind)
        /\ req[s].error \in {"none", "E11000"})
         => Cardinality(matching(req[s].email)) = 1
  /\ (/\ last # None
      /\ Called(last)
      /\ IsUpsert(last.kind)
      /\ last.call.error \in {"none", "E11000"})
       => Cardinality(matching(last.email)) = 1

\* Two upserts of one unseen email overlapped: the loser was answered 500.
C1_Witness ==
  /\ last # None
  /\ Called(last)
  /\ last.call.error = "E11000"
  /\ last.resp.status = 500
  /\ Cardinality(matching(last.email)) = 1

\* C2: when the store serves without error a register-email for an email
\* that has a document, it returns that document's _id, inserts nothing and
\* leaves one document with that email; the handler answers a register-email
\* served without error with 200 and the _id returned, which is the _id of the
\* one document with that email.
C2_RegisterIdempotent ==
  [][\A s \in Slots :
       /\ (/\ Serves(s)
           /\ req[s].kind = "register"
           /\ matching(req[s].email) # {}
           /\ Succeeded(req'[s]))
          => /\ req'[s].result._id = findOne(req[s].email)._id
             /\ req'[s].before = findOne(req[s].email)
             /\ ~req'[s].created
             /\ Cardinality(matchingIn(users', req[s].email)) = 1
       /\ (/\ Answers(s)
           /\ req[s].kind = "register"
           /\ Succeeded(req[s]))
          => /\ last'.resp.status = 200
             /\ last'.resp.userId = req[s].result._id
             /\ Cardinality(matching(req[s].email)) = 1
             /\ last'.resp.userId = findOne(req[s].email)._id]_vars

\* register-email returned the _id of a document a provider login created.
C2_Witness ==
  /\ last # None
  /\ last.kind = "register"
  /\ last.resp.status = 200
  /\ last.call.before # Null
  /\ last.call.before.provider # Str(<<"local">>)
  /\ last.resp.userId = last.call.before._id

\* C3 (as claimed): a provider callback whose profile carries no email is
\* answered with a redirect to /error, and changes neither the store nor any
\* session.
C3_MissingEmailRedirects ==
  [][(/\ Rejected
      /\ IsLogin(last'.kind)
      /\ ~Truthy(last'.email))
     => /\ last'.resp = [status |-> 302, location |-> <<"/error">>]
        /\ users' = users
        /\ session' = session]_vars

\* C4 (as claimed): a valid update-details for an email that has no document
\* creates one with that email and the supplied fields, and returns it.
C4_UpdateDetailsUpserts ==
  [][\A s \in Slots :
       (/\ Answers(s)
        /\ req[s].kind = "update"
        /\ Succeeded(req[s])
        /\ req[s].before = Null)
       => /\ last'.resp.status = 200
          /\ last'.resp.data # Null
          /\ last'.resp.data.email = req[s].email
          /\ \A f \in DetailPaths : last'.resp.data[f] = req[s].update[f]
          /\ matching(req[s].email) # {}]_vars

\* C5: when the store serves the upsert of a provider login without error,
\* it leaves exactly one document with the login's email (the document that
\* had the email, when there was one), whose provider is the provider of this
\* login and whose fullName is the display name of this assertion; no other
\* step changes the provider of a document: the provider is that of the
\* login the store served last.
C5_LastLoginWins ==
  [][/\ \A s \in Slots :
          (/\ Serves(s)
           /\ IsLogin(req[s].kind)
           /\ Succeeded(req'[s]))
          => /\ matchingIn(users', req[s].email) = {req'[s].result}
             /\ req'[s].result.provider = Str(<<req[s].kind>>)
             /\ req'[s].result.fullName = req[s].update.fullName
             /\ matching(req[s].email) # {}
                  => req'[s].result._id = findOne(req[s].email)._id
     /\ ~(\E s \in Slots : Serves(s) /\ IsLogin(req[s].kind))
          => \A u \in users : \A w \in sameId(users', u) : w.provider = u.provider
    ]_vars

\* A LinkedIn login took over a document whose last login was Google's.
C5_Witness ==
  /\ last # None
  /\ last.kind = "linkedin"
  /\ last.resp.status = 302
  /\ last.call.before # Null
  /\ last.call.before.provider = Str(<<"google">>)
  /\ \E u \in users :
       /\ u._id = last.call.before._id
       /\ u.provider = Str(<<"linkedin">>)
       /\ u.fullName = last.call.update.fullName
       /\ u.fullName # last.call.before.fullName

\* C6 (as claimed): register-email with a missing or empty email, or with an
\* email that does not contain '@', is answered 400 and leaves the store
\* unchanged.
C6_InvalidEmailIs400 ==
  [][(/\ Rejected
      /\ last'.kind = "register"
      /\ InvalidEmail(last'.email))
     => /\ last'.resp.status = 400
        /\ users' = users]_vars

\* C7 (amended): when the store serves without error an update-details on an
\* existing email, the document it stores and returns has every one of
\* fullName, country, profession and source that the call supplied equal to
\* the supplied value and every one the call omitted equal to the value the
\* document held before; the handler answers 200 with that document as data.
C7_SuppliedSetOmittedKept ==
  [][\A s \in Slots :
       /\ (/\ Serves(s)
           /\ req[s].kind = "update"
           /\ matching(req[s].email) # {}
           /\ Succeeded(req'[s]))
          => /\ req'[s].result \in users'
             /\ req'[s].result._id = findOne(req[s].email)._id
             /\ \A f \in DetailPaths :
                  req'[s].result[f] =
                    IF req[s].update[f] # Undefined THEN req[s].update[f]
                    ELSE findOne(req[s].email)[f]
       /\ (/\ Answers(s)
           /\ req[s].kind = "update"
           /\ Succeeded(req[s]))
          => /\ last'.resp.status = 200
             /\ last'.resp.data = req[s].result]_vars

\* C7 (as claimed): ... and every one the call omitted is absent in the
\* document stored and returned.
C7_OmittedBecomeAbsent ==
  [][\A s \in Slots :
       (/\ Serves(s)
        /\ req[s].kind = "update"
        /\ matching(req[s].email) # {}
        /\ Succeeded(req'[s]))
       => /\ req'[s].result \in users'
          /\ \A f \in DetailPaths : req'[s].result[f] = req[s].update[f]]_vars

\* update-details omitted a field the document held, and supplied another.
C7_Witness ==
  /\ last # None
  /\ last.kind = "update"
  /\ last.resp.status = 200
  /\ last.call.before # Null
  /\ \E f \in DetailPaths :
       /\ last.call.update[f] = Undefined
       /\ last.call.before[f] # Undefined
       /\ last.resp.data[f] = last.call.before[f]
  /\ \E f \in DetailPaths :
       /\ last.call.update[f] # Undefined
       /\ last.call.update[f] # last.call.before[f]
       /\ last.resp.data[f] = last.call.update[f]

\* C8: a document appears only in the step in which the store inserts for an
\* upsert (register-email or a login), with an _id above every _id in use and
\* the time of the call as registeredAt; every step keeps every document with
\* its _id, its email and its registeredAt.
C8_IdAndRegisteredAtFixed ==
  [][/\ \A u \in users :
          \E w \in users' : /\ w._id = u._id
                            /\ w.email = u.email
                            /\ w.registeredAt = u.registeredAt
     /\ \A w \in users' :
          sameId(users, w) = {}
            => /\ \A u \in users : u._id < w._id
               /\ \E s \in Slots :
                    /\ req[s].pc = "insert"
                    /\ Serves(s)
                    /\ IsUpsert(req[s].kind)
                    /\ req'[s].created
                    /\ req'[s].result = w
                    /\ w.email = req[s].email
                    /\ w.registeredAt = req[s].now
                    /\ w.registeredAt \in 1..clock
    ]_vars

\* A later operation changed a document this process inserted, and kept its
\* _id and its registeredAt.
C8_Witness ==
  /\ last # None
  /\ Called(last)
  /\ last.call.before # Null
  /\ \E u \in users :
       /\ u._id = last.call.before._id
       /\ u # last.call.before
       /\ u.registeredAt = last.call.before.registeredAt
       /\ u.registeredAt >= 1
       /\ u.registeredAt < clock

\* C9: the store changes only in a step that serves a call; what changes is
\* the document of the call's email; on an existing document register-email
\* keeps fullName, country, profession, source and provider, a login keeps
\* country, profession and source, update-details keeps email and provider.
C9_Frame ==
  [][/\ users' # users => \E s \in Slots : Serves(s)
     /\ \A s \in Slots :
          Serves(s) =>
            \A u \in users : \E w \in users' :
              /\ w._id = u._id
              /\ u.email # req[s].email => w = u
              /\ req[s].kind = "register"
                   => /\ w.fullName = u.fullName
                      /\ w.country = u.country
                      /\ w.profession = u.profession
                      /\ w.source = u.source
                      /\ w.provider = u.provider
              /\ IsLogin(req[s].kind)
                   => /\ w.country = u.country
                      /\ w.profession = u.profession
                      /\ w.source = u.source
              /\ req[s].kind = "update"
                   => /\ w.email = u.email
                      /\ w.provider = u.provider
    ]_vars

\* A login changed the fullName of a document that held details, and kept
\* the details.
C9_Witness ==
  /\ last # None
  /\ IsLogin(last.kind)
  /\ Called(last)
  /\ last.call.before # Null
  /\ last.call.before.country # Undefined
  /\ last.call.result.fullName # last.call.before.fullName
  /\ last.call.result.country = last.call.before.country
  /\ last.call.result.profession = last.call.before.profession
  /\ last.call.result.source = last.call.before.source

\* C10: a session becomes bound, or bound to another _id, only in the step in
\* which the handler of a provider callback of its client, whose assertion
\* carried an email and whose upsert returned a user, answers with the
\* success redirect; it is then bound to the _id of the document the upsert
\* returned for that email, and the redirect's email parameter is that
\* document's email.  Every such step binds the session.  A bound session is
\* bound to the _id of a document of the store; resolving it, when the store
\* serves the look-up, returns the document with that _id, and the request
\* goes on to its route with the session still bound; when the store cannot
\* serve the look-up the request is answered 500 and changes nothing.
C10_SessionBinding ==
  /\ [](\A s \in Slots :
          session[s] # Unauthenticated
            => /\ findById(session[s]) # Null
               /\ findById(session[s])._id = session[s])
  /\ [][\A s \in Slots :
          /\ (session'[s] # session[s] /\ session'[s] # Unauthenticated)
               => /\ Answers(s)
                  /\ IsLogin(req[s].kind)
                  /\ Truthy(req[s].email)
                  /\ Succeeded(req[s])
          /\ (Answers(s) /\ IsLogin(req[s].kind) /\ Succeeded(req[s]))
               => /\ last'.resp.status = 302
                  /\ session'[s] = req[s].result._id
                  /\ req[s].result.email = req[s].email
                  /\ \E u \in users : /\ u._id = session'[s]
                                      /\ u.email = req[s].email
                  /\ emailParam(last'.resp.location) = req[s].email.str
          /\ (req[s] = Idle /\ req'[s] # Idle)
               => (req'[s].pc = "find" <=> session[s] # Unauthenticated)
          /\ (Resolves(s) /\ req'[s].error = "none")
               => /\ req'[s].user \in users
                  /\ req'[s].user._id = req[s].id
                  /\ deserializeUser(req'[s]) =
                       [err |-> "none", user |-> findById(req[s].id)]
          /\ (req[s].pc = "found" /\ req'[s] # req[s])
               => IF req[s].error = "none"
                    THEN session'[s] = session[s]
                    ELSE /\ last'.resp.status = 500
                         /\ last'.call = req[s]
                         /\ req'[s] = Idle
                         /\ users' = users
                         /\ session' = session
       ]_vars

\* A login bound the session of its client to the document of its email, and
\* the next request of that client resolved the session to that document.
C10_Witness ==
  /\ last # None
  /\ IsLogin(last.kind)
  /\ last.resp.status = 302
  /\ session[last.slot] = last.call.result._id
  /\ emailParam(last.resp.location) = last.email.str
  /\ req[last.slot].pc = "found"
  /\ req[last.slot].error = "none"
  /\ req[last.slot].id = session[last.slot]
  /\ req[last.slot].user._id = session[last.slot]
  /\ req[last.slot].user.email = last.email

====
